---- MODULE Spec2Model ----
(***************************************************************************)
(* A model of subtitle_cleaner.py: parse_srt, remove_duplicates,           *)
(* perform_deep_cleaning, format_srt and main.                             *)
(*                                                                         *)
(* Representation.                                                         *)
(*  - A SubtitleEntry object is a slot of `heap`; a Python list of entries *)
(*    is a sequence of slot numbers, so that two lists holding the same    *)
(*    object see each other's assignments to text_lines and number.        *)
(*  - A text (file content) is the sequence of its lines, i.e. the text    *)
(*    is "\n".join(lines); a line holds no newline.  The empty text is     *)
(*    <<"">>.                                                              *)
(*  - Lines are strings; str.strip() is modelled on the lines the model    *)
(*    draws from: the lines of WhitespaceLines strip to "".                *)
(***************************************************************************)
EXTENDS Integers, Sequences, FiniteSets, TLC

VARIABLES
    pc,          \* position in main / in perform_deep_cleaning
    argc,        \* len(sys.argv)
    readable,    \* whether open(input_file).read() succeeds
    writable,    \* "yes", "no" (open fails) or "opens only" (write fails)
    content,     \* the text of the input file, as lines
    heap,        \* the SubtitleEntry objects
    entries,     \* the list passed to perform_deep_cleaning (slots)
    given,       \* the values of that list's entries when it was passed
    cleaned,     \* perform_deep_cleaning's local `cleaned` (slots)
    prev_count,  \* perform_deep_cleaning's local `prev_count`
    passes,      \* iterations of `for _ in range(5)` started so far
    call,        \* how many times perform_deep_cleaning has been called
    formatted,   \* format_srt's result, as lines
    reparsed,    \* parse_srt of the formatted text (values)
    outfile,     \* "untouched", "opened" (truncated) or "written"
    printed,     \* what main has printed
    status       \* the exit status, -1 while running

vars == <<pc, argc, readable, writable, content, heap, entries, given, cleaned,
          prev_count, passes, call, formatted, reparsed, outfile, printed, status>>

-----------------------------------------------------------------------------
(* Bounds of the model *)

\* most entries in a drawn entry list
MaxEntries == 3
\* most raw text lines in a drawn entry list, over all its entries
MaxTotalLines == 4
\* longest list of identical one-line entries drawn
MaxUniform == 33
\* most blocks in a drawn well-formed text
MaxBlocks == 3
\* most text lines in a drawn well-formed text, over all its blocks
MaxBlockLines == 4
\* most lines in a drawn arbitrary text
MaxContentLines == 4

\* range(5) in perform_deep_cleaning
MaxPasses == 5

-----------------------------------------------------------------------------
(* Lines *)

WhitespaceLines == {"", " "}
TextAlphabet == {"A", "B", " "}

\* line.strip()
strip(line) == IF line \in WhitespaceLines THEN "" ELSE line

Pad2(i) == IF i < 10 THEN "0" \o ToString(i) ELSE ToString(i)
\* an HH:MM:SS,mmm timestamp
Stamp(i) == "00:00:" \o Pad2(i) \o ",000"

RECURSIVE SeqSum(_)
SeqSum(s) == IF s = <<>> THEN 0 ELSE Head(s) + SeqSum(Tail(s))

\* line 33: the lines that strip() leaves non-empty, in order
RECURSIVE SelectLines(_)
SelectLines(s) ==
    IF s = <<>> THEN <<>>
    ELSE IF strip(Head(s)) # "" THEN <<Head(s)>> \o SelectLines(Tail(s))
    ELSE SelectLines(Tail(s))

-----------------------------------------------------------------------------
(* SubtitleEntry *)

SubtitleEntry(number, start_time, end_time, text_lines) ==
    [number |-> number, start_time |-> start_time, end_time |-> end_time,
     text_lines |-> text_lines]

is_empty(e) == \A k \in 1..Len(e.text_lines) : strip(e.text_lines[k]) = ""

get_cleaned_lines(e) == SelectLines(e.text_lines)

-----------------------------------------------------------------------------
(* remove_duplicates *)

\* line 84: the entry the current one is compared with
PrevEntry(h, list, i) == h[list[i - 1]]

\* line 97
IsDuplicate(prev, current) ==
    LET prev_lines == get_cleaned_lines(prev)
        current_lines == get_cleaned_lines(current)
    IN  /\ current_lines # <<>>
        /\ prev_lines # <<>>
        /\ current_lines[1] = prev_lines[Len(prev_lines)]

\* line 99 removing the line that matched instead of the first raw line
TrimFirstNonEmpty(text_lines) ==
    IF \A k \in 1..Len(text_lines) : strip(text_lines[k]) = "" THEN text_lines
    ELSE LET m == CHOOSE k \in 1..Len(text_lines) :
                      /\ strip(text_lines[k]) # ""
                      /\ \A j \in 1..(k - 1) : strip(text_lines[j]) = ""
         IN  SubSeq(text_lines, 1, m - 1) \o SubSeq(text_lines, m + 1, Len(text_lines))

\* line 99 slicing from the wrong end, text_lines[:-1]
TrimLast(text_lines) ==
    IF Len(text_lines) > 1 THEN SubSeq(text_lines, 1, Len(text_lines) - 1)
    ELSE <<>>

\* line 99
TrimmedLines(text_lines) ==
    IF Len(text_lines) > 1 THEN Tail(text_lines) ELSE <<>>

\* lines 102-105: whether the current entry is appended to result
Kept(current) == ~is_empty(current)

\* lines 83-105, from index i on (1-based); returns the heap and result
RECURSIVE RemoveLoop(_, _, _, _)
RemoveLoop(h, list, i, result) ==
    IF i > Len(list) THEN [heap |-> h, result |-> result]
    ELSE
        LET prev == PrevEntry(h, list, i)
            current == h[list[i]]
        IN  IF is_empty(prev) \/ is_empty(current)
            THEN RemoveLoop(h, list, i + 1, Append(result, list[i]))
            ELSE IF IsDuplicate(prev, current)
            THEN LET trimmed == [current EXCEPT
                                   !.text_lines = TrimmedLines(@)]
                     h2 == [h EXCEPT ![list[i]] = trimmed]
                 IN  IF Kept(trimmed)
                     THEN RemoveLoop(h2, list, i + 1, Append(result, list[i]))
                     ELSE RemoveLoop(h2, list, i + 1, result)
            ELSE RemoveLoop(h, list, i + 1, Append(result, list[i]))

remove_duplicates(h, list) ==
    IF list = <<>> THEN [heap |-> h, result |-> <<>>]
    ELSE RemoveLoop(h, list, 2, <<list[1]>>)

-----------------------------------------------------------------------------
(* perform_deep_cleaning *)

\* line 129 with the comparison the wrong way round
CountGrew(new_count, old_count) == new_count > old_count

\* line 129: the loop breaks
CountStable(new_count, old_count) == new_count = old_count

\* line 126: the loop has iterations left
MorePasses(n) == n < MaxPasses

\* line 134 left out
KeepAll(h, list) == list

\* line 134
RECURSIVE NonEmptyEntries(_, _)
NonEmptyEntries(h, list) ==
    IF list = <<>> THEN <<>>
    ELSE IF ~is_empty(h[Head(list)])
         THEN <<Head(list)>> \o NonEmptyEntries(h, Tail(list))
         ELSE NonEmptyEntries(h, Tail(list))

\* lines 137-138 with enumerate(cleaned) starting at 0
RenumberFromZero(h, list, i) ==
    [s \in DOMAIN h |->
        IF \E k \in 1..Len(list) : list[k] = s
        THEN [h[s] EXCEPT !.number = (CHOOSE k \in 1..Len(list) : list[k] = s) - 1]
        ELSE h[s]]

\* lines 137-138
RECURSIVE Renumber(_, _, _)
Renumber(h, list, i) ==
    IF i > Len(list) THEN h
    ELSE Renumber([h EXCEPT ![list[i]].number = i], list, i + 1)

\* the values of a list's entries
Values(h, list) == [k \in 1..Len(list) |-> h[list[k]]]

\* lines 126-131: one iteration of the loop
Pass ==
    /\ pc = "clean"
    /\ MorePasses(passes)
    /\ LET r == remove_duplicates(heap, cleaned)
       IN  /\ heap' = r.heap
           /\ cleaned' = r.result
           /\ prev_count' = Len(cleaned)
           /\ passes' = passes + 1
           /\ pc' = IF CountStable(Len(r.result), Len(cleaned))
                       \/ ~MorePasses(passes + 1)
                    THEN "filter" ELSE "clean"
    /\ UNCHANGED <<argc, readable, writable, content, entries, given, call,
                   formatted, reparsed, outfile, printed, status>>

\* lines 133-140: filter, renumber, return
Finish ==
    /\ pc = "filter"
    /\ LET kept == NonEmptyEntries(heap, cleaned)
       IN  /\ cleaned' = kept
           /\ heap' = Renumber(heap, kept, 1)
    /\ pc' = "cleaned"
    /\ UNCHANGED <<argc, readable, writable, content, entries, given,
                   prev_count, passes, call, formatted, reparsed, outfile,
                   printed, status>>

\* perform_deep_cleaning called on the list it returned
CleanAgain ==
    /\ pc = "cleaned"
    /\ call = 1
    /\ call' = 2
    /\ entries' = cleaned
    /\ given' = Values(heap, cleaned)
    /\ passes' = 0
    /\ prev_count' = 0
    /\ pc' = "clean"
    /\ UNCHANGED <<argc, readable, writable, content, heap, cleaned,
                   formatted, reparsed, outfile, printed, status>>

-----------------------------------------------------------------------------
(* parse_srt *)

\* A line of digits too long for int(): more digits than
\* sys.int_info.default_max_str_digits, for which int() raises ValueError.
\* The string stands for such a line.
HugeNumberLine == "999999999"

NumberRange == 0..9
NumberLines == {ToString(n) : n \in NumberRange}

\* the timestamps the drawn texts use
StampIds == 1..(MaxBlocks + 2)
TimingLine(start_time, end_time) == start_time \o " --> " \o end_time
Timings ==
    {[line |-> TimingLine(Stamp(a), Stamp(b)), start_time |-> Stamp(a),
      end_time |-> Stamp(b)] : a \in StampIds, b \in StampIds}
IsTimingLine(line) == \E t \in Timings : t.line = line
TimingOf(line) == CHOOSE t \in Timings : t.line = line

\* (\d+) followed by the end of the line: the line ends in digits.  Of the
\* drawn lines those are the number lines and the timing lines (",000").
EndsInDigits(line) ==
    line \in NumberLines \/ line = HugeNumberLine \/ IsTimingLine(line)
\* group(1): the digits the line ends in
TrailingDigits(line) == IF IsTimingLine(line) THEN "000" ELSE line
\* int(match.group(1)) raises ValueError
IntRaises(digits) == digits = HugeNumberLine
\* int(match.group(1)), when it does not raise
int(digits) ==
    IF digits = "000" THEN 0
    ELSE CHOOSE n \in NumberRange : ToString(n) = digits

\* \s matches the newline too, so \s* runs over whitespace-only lines:
\* the first line from i on that is not whitespace-only, or Len + 1
RECURSIVE SkipBlank(_, _)
SkipBlank(lines, i) ==
    IF i <= Len(lines) /\ strip(lines[i]) = "" THEN SkipBlank(lines, i + 1)
    ELSE i

\* (?:.+\n?)+? : the text block runs from line u to the last line before an
\* empty line or the end of the text
RECURSIVE TextEnd(_, _)
TextEnd(lines, v) ==
    IF v + 1 <= Len(lines) /\ lines[v + 1] # "" THEN TextEnd(lines, v + 1)
    ELSE v

\* \n\s*\n : the last whitespace-only line, from w on, that another line
\* follows
RECURSIVE SeparatorEnd(_, _)
SeparatorEnd(lines, w) ==
    IF w + 2 <= Len(lines) /\ strip(lines[w + 1]) = ""
    THEN SeparatorEnd(lines, w + 1) ELSE w

\* line 60
RECURSIVE NonEmptyStrings(_)
NonEmptyStrings(s) ==
    IF s = <<>> THEN <<>>
    ELSE IF Head(s) # "" THEN <<Head(s)>> \o NonEmptyStrings(Tail(s))
    ELSE NonEmptyStrings(Tail(s))

\* block_pattern matched with (\d+) on line i: whether it matches, the
\* groups, and the line the match ends before
MatchAt(lines, i) ==
    LET n == Len(lines)
        t == SkipBlank(lines, i + 1)
        NoMatch == [ok |-> FALSE]
    IN  IF ~EndsInDigits(lines[i]) THEN NoMatch
        ELSE IF t > n \/ ~IsTimingLine(lines[t]) THEN NoMatch
        ELSE
          LET r == SkipBlank(lines, t + 1)
              spaces == {k \in (t + 1)..n : lines[k] # ""}
          IN  IF r > n /\ spaces = {} THEN NoMatch
              ELSE
                LET u == IF r <= n THEN r
                         ELSE CHOOSE k \in spaces : \A j \in spaces : j <= k
                    v == TextEnd(lines, u)
                    end == IF /\ v + 3 <= n
                              /\ lines[v + 1] = ""
                              /\ strip(lines[v + 2]) = ""
                           THEN SeparatorEnd(lines, v + 2) + 1
                           ELSE v + 1
                IN  [ok |-> TRUE,
                     digits |-> TrailingDigits(lines[i]),
                     start_time |-> TimingOf(lines[t]).start_time,
                     end_time |-> TimingOf(lines[t]).end_time,
                     text_block |-> SubSeq(lines, u, v),
                     end |-> end]

\* lines 53-63: finditer from line i on; the entries, or that int() raised
RECURSIVE ParseFrom(_, _, _)
ParseFrom(lines, i, found) ==
    IF i > Len(lines) THEN [raised |-> FALSE, entries |-> found]
    ELSE
        LET m == MatchAt(lines, i)
        IN  IF ~m.ok THEN ParseFrom(lines, i + 1, found)
            ELSE IF IntRaises(m.digits) THEN [raised |-> TRUE, entries |-> <<>>]
            ELSE ParseFrom(lines, m.end,
                     Append(found,
                         SubtitleEntry(int(m.digits), m.start_time, m.end_time,
                                       NonEmptyStrings(m.text_block))))

parse_srt(lines) == ParseFrom(lines, 1, <<>>)

\* lines 178-179
Parse ==
    /\ pc = "read"
    /\ ~parse_srt(content).raised
    /\ heap' = parse_srt(content).entries
    /\ entries' = [i \in 1..Len(heap') |-> i]
    /\ given' = heap'
    /\ cleaned' = entries'
    /\ pc' = "clean"
    /\ UNCHANGED <<argc, readable, writable, content, prev_count, passes, call,
                   formatted, reparsed, outfile, printed, status>>

-----------------------------------------------------------------------------
(* format_srt *)

\* lines 155-158 without the empty line between entries
EntryLinesUnseparated(e) ==
    <<ToString(e.number), e.start_time \o " --> " \o e.end_time>>
        \o e.text_lines

\* lines 155-158
EntryLines(e) ==
    <<ToString(e.number), e.start_time \o " --> " \o e.end_time>>
        \o e.text_lines \o <<"">>

RECURSIVE FormatLoop(_)
FormatLoop(es) ==
    IF es = <<>> THEN <<>> ELSE EntryLines(Head(es)) \o FormatLoop(Tail(es))

\* line 160: "\n".join(lines); the join of no lines is the empty text
format_srt(es) ==
    LET lines == FormatLoop(es) IN IF lines = <<>> THEN <<"">> ELSE lines

Format ==
    /\ pc = "cleaned"
    /\ formatted' = format_srt(Values(heap, cleaned))
    /\ pc' = "formatted"
    /\ UNCHANGED <<argc, readable, writable, content, heap, entries, given,
                   cleaned, prev_count, passes, call, reparsed, outfile,
                   printed, status>>

-----------------------------------------------------------------------------
(* Entry lists drawn as input of perform_deep_cleaning *)

\* sequence numbers as found in a file: 1..N, or duplicated, out of order
\* and with gaps
NumberSchemes == {"contiguous", "arbitrary"}
NumberOf(scheme, i) ==
    IF scheme = "contiguous" THEN i ELSE IF i % 2 = 1 THEN 7 ELSE 3

\* entry i of a list whose entries hold sizes[i] lines of flat, in order
EntryAt(scheme, flat, sizes, i) ==
    LET before == SeqSum(SubSeq(sizes, 1, i - 1))
    IN  SubtitleEntry(NumberOf(scheme, i), Stamp(i), Stamp(i + 1),
                      SubSeq(flat, before + 1, before + sizes[i]))

SizeVectors(n, total) ==
    {sz \in [1..n -> 0..total] : SeqSum(sz) = total}

\* an entry list of n entries holding t text lines in all
IsDrawnHeap(h) ==
    \E n \in 0..MaxEntries, t \in 0..MaxTotalLines, scheme \in NumberSchemes :
        \E flat \in [1..t -> TextAlphabet], sz \in SizeVectors(n, t) :
            h = [i \in 1..n |-> EntryAt(scheme, flat, sz, i)]

\* a longer list of entries that all hold the one line "A"
IsUniformHeap(h) ==
    \E n \in (MaxEntries + 1)..MaxUniform :
        h = [i \in 1..n |-> SubtitleEntry(i, Stamp(i), Stamp(i + 1), <<"A">>)]

InitIdle ==
    /\ argc = 3
    /\ readable = TRUE
    /\ writable = "yes"
    /\ content = <<"">>
    /\ formatted = <<>>
    /\ reparsed = <<>>
    /\ outfile = "untouched"
    /\ printed = <<>>
    /\ status = -1

Init ==
    /\ (IsDrawnHeap(heap) \/ IsUniformHeap(heap))
    /\ entries = [i \in 1..Len(heap) |-> i]
    /\ given = heap
    /\ cleaned = entries
    /\ prev_count = 0
    /\ passes = 0
    /\ call = 1
    /\ pc = "clean"
    /\ InitIdle

Next == Pass \/ Finish \/ CleanAgain \/ Format

Spec == Init /\ [][Next]_vars

-----------------------------------------------------------------------------
(* Texts drawn as file content *)

\* block i of a well-formed text: number line, timing line, text lines,
\* empty line
BlockAt(scheme, flat, sizes, i) ==
    LET before == SeqSum(SubSeq(sizes, 1, i - 1))
    IN  <<ToString(NumberOf(scheme, i)), TimingLine(Stamp(i), Stamp(i + 1))>>
            \o SubSeq(flat, before + 1, before + sizes[i]) \o <<"">>

RECURSIVE Blocks(_, _, _, _)
Blocks(scheme, flat, sizes, i) ==
    IF i > Len(sizes) THEN <<>>
    ELSE BlockAt(scheme, flat, sizes, i) \o Blocks(scheme, flat, sizes, i + 1)

\* a text that ends with "\n" has an empty last line
WithFinalNewline(lines, final) == IF final THEN lines \o <<"">> ELSE lines

BlockSizes(n, total) ==
    {sz \in [1..n -> 1..total] : SeqSum(sz) = total}

\* a text of n well-formed blocks holding t text lines in all
IsWellFormedText(lines) ==
    \E n \in 1..MaxBlocks, t \in 1..MaxBlockLines, scheme \in NumberSchemes,
       final \in BOOLEAN :
        \E flat \in [1..t -> TextAlphabet], sz \in BlockSizes(n, t) :
            lines = WithFinalNewline(Blocks(scheme, flat, sz, 1), final)

ContentAlphabet ==
    {"1", HugeNumberLine, TimingLine(Stamp(1), Stamp(2)), "A", " ", ""}
ArbitraryTexts ==
    UNION {[1..n -> ContentAlphabet] : n \in 1..MaxContentLines}

InitNothingParsed ==
    /\ heap = <<>>
    /\ entries = <<>>
    /\ given = <<>>
    /\ cleaned = <<>>
    /\ prev_count = 0
    /\ passes = 0
    /\ call = 1
    /\ formatted = <<>>
    /\ reparsed = <<>>
    /\ outfile = "untouched"
    /\ printed = <<>>
    /\ status = -1

-----------------------------------------------------------------------------
(* parse_srt applied to what format_srt made of the cleaned entries *)

Reparse ==
    /\ pc = "formatted"
    /\ ~parse_srt(formatted).raised
    /\ reparsed' = parse_srt(formatted).entries
    /\ pc' = "reparsed"
    /\ UNCHANGED <<argc, readable, writable, content, heap, entries, given,
                   cleaned, prev_count, passes, call, formatted, outfile,
                   printed, status>>

RoundTripInit ==
    /\ IsWellFormedText(content)
    /\ argc = 3
    /\ readable = TRUE
    /\ writable = "yes"
    /\ pc = "read"
    /\ InitNothingParsed

RoundTripNext == Parse \/ Pass \/ Finish \/ Format \/ Reparse

RoundTripSpec == RoundTripInit /\ [][RoundTripNext]_vars

-----------------------------------------------------------------------------
(* main *)

\* lines 195-197 without sys.exit(1): main returns, the status is 0
ErrorReturn(message) ==
    /\ printed' = Append(printed, <<"Error processing file", message>>)
    /\ status' = 0
    /\ pc' = "exit"

\* lines 195-197: the exception's message is printed, the process exits
ErrorExit(message) ==
    /\ printed' = Append(printed, <<"Error processing file", message>>)
    /\ status' = 1
    /\ pc' = "exit"

\* lines 165-167
Usage ==
    /\ pc = "start"
    /\ argc # 3
    /\ printed' = Append(printed, <<"Usage", "">>)
    /\ status' = 1
    /\ pc' = "exit"
    /\ UNCHANGED <<argc, readable, writable, content, heap, entries, given,
                   cleaned, prev_count, passes, call, formatted, reparsed,
                   outfile>>

\* lines 174-175
ReadInput ==
    /\ pc = "start"
    /\ argc = 3
    /\ readable
    /\ pc' = "read"
    /\ UNCHANGED <<argc, readable, writable, content, heap, entries, given,
                   cleaned, prev_count, passes, call, formatted, reparsed,
                   outfile, printed, status>>

\* lines 174-175 raising OSError
ReadError ==
    /\ pc = "start"
    /\ argc = 3
    /\ ~readable
    /\ ErrorExit("cannot read input")
    /\ UNCHANGED <<argc, readable, writable, content, heap, entries, given,
                   cleaned, prev_count, passes, call, formatted, reparsed,
                   outfile>>

\* line 178 raising ValueError (line 54)
ParseError ==
    /\ pc = "read"
    /\ parse_srt(content).raised
    /\ ErrorExit("int() failed")
    /\ UNCHANGED <<argc, readable, writable, content, heap, entries, given,
                   cleaned, prev_count, passes, call, formatted, reparsed,
                   outfile>>

\* line 188: open(output_file, 'w') truncates the file
OpenOutput ==
    /\ pc = "formatted"
    /\ writable # "no"
    /\ outfile' = "opened"
    /\ pc' = "opened"
    /\ UNCHANGED <<argc, readable, writable, content, heap, entries, given,
                   cleaned, prev_count, passes, call, formatted, reparsed,
                   printed, status>>

\* line 188 raising OSError
OpenError ==
    /\ pc = "formatted"
    /\ writable = "no"
    /\ ErrorExit("cannot open output")
    /\ UNCHANGED <<argc, readable, writable, content, heap, entries, given,
                   cleaned, prev_count, passes, call, formatted, reparsed,
                   outfile>>

\* line 189, and the file's close
WriteOutput ==
    /\ pc = "opened"
    /\ writable = "yes"
    /\ outfile' = "written"
    /\ pc' = "written"
    /\ UNCHANGED <<argc, readable, writable, content, heap, entries, given,
                   cleaned, prev_count, passes, call, formatted, reparsed,
                   printed, status>>

\* line 189 raising OSError (the device is full)
WriteError ==
    /\ pc = "opened"
    /\ writable = "opens only"
    /\ ErrorExit("cannot write output")
    /\ UNCHANGED <<argc, readable, writable, content, heap, entries, given,
                   cleaned, prev_count, passes, call, formatted, reparsed,
                   outfile>>

\* lines 192-193, and the return from main
PrintStatistics ==
    /\ pc = "written"
    /\ printed' = printed \o <<<<"Successfully cleaned subtitles", "">>,
                               <<"Original entries, Cleaned entries",
                                 <<Len(entries), Len(cleaned)>>>>>>
    /\ status' = 0
    /\ pc' = "exit"
    /\ UNCHANGED <<argc, readable, writable, content, heap, entries, given,
                   cleaned, prev_count, passes, call, formatted, reparsed,
                   outfile>>

\* the runs of main: a wrong argument count, an unreadable input file, or
\* a readable one with some content and some output path
MainInit ==
    /\ pc = "start"
    /\ \/ /\ argc \in {1, 2, 4}
          /\ readable = TRUE /\ writable = "yes" /\ content = <<"">>
       \/ /\ argc = 3
          /\ readable = FALSE /\ writable \in {"yes", "no"} /\ content = <<"">>
       \/ /\ argc = 3
          /\ readable = TRUE
          /\ writable \in {"yes", "no", "opens only"}
          /\ (content \in ArbitraryTexts \/ IsWellFormedText(content))
    /\ InitNothingParsed

MainNext ==
    \/ Usage \/ ReadInput \/ ReadError \/ Parse \/ ParseError
    \/ Pass \/ Finish \/ Format
    \/ OpenOutput \/ OpenError \/ WriteOutput \/ WriteError \/ PrintStatistics

MainSpec == MainInit /\ [][MainNext]_vars

-----------------------------------------------------------------------------
(* Vocabulary of the properties, defined apart from the model's operators *)

NonBlank(line) == line \notin {"", " "}
HasText(lines) == \E k \in 1..Len(lines) : NonBlank(lines[k])
FirstNonBlank(lines) ==
    lines[CHOOSE k \in 1..Len(lines) :
            NonBlank(lines[k]) /\ \A j \in 1..(k - 1) : ~NonBlank(lines[j])]
LastNonBlank(lines) ==
    lines[CHOOSE k \in 1..Len(lines) :
            NonBlank(lines[k]) /\ \A j \in (k + 1)..Len(lines) : ~NonBlank(lines[j])]
\* the first non-empty line of `later` equals the last non-empty line of
\* `earlier`, both having one
Repeats(earlier, later) ==
    /\ HasText(earlier)
    /\ HasText(later)
    /\ FirstNonBlank(later) = LastNonBlank(earlier)
IsSuffix(s, t) == \E d \in 0..Len(t) : s = SubSeq(t, d + 1, Len(t))
Returned == pc \in {"cleaned", "formatted"}
\* the step is one pass of remove_duplicates
PassStep == passes' = passes + 1
\* position of a slot in the list passed to perform_deep_cleaning
PosIn(list, slot) == CHOOSE k \in 1..Len(list) : list[k] = slot
InList(list, slot) == \E k \in 1..Len(list) : list[k] = slot

-----------------------------------------------------------------------------
(* C1 *)

\* C1 (as claimed): perform_deep_cleaning applied to the list it returned
\* returns that list unchanged: same entries, each with the same text lines,
\* timestamps and sequence number.
C1_Idempotent ==
    (call = 2 /\ pc = "cleaned") => Values(heap, cleaned) = given

-----------------------------------------------------------------------------
(* C2 *)

\* C2 (as claimed): in a pass, entry i >= 1 is trimmed exactly when its first
\* non-empty line equals the last non-empty line of entry i-1 as both were
\* when the pass started.
C2_ComparesPassStartState ==
    [][PassStep =>
         \A i \in 2..Len(cleaned) :
             (heap'[cleaned[i]].text_lines # heap[cleaned[i]].text_lines)
                 <=> Repeats(heap[cleaned[i - 1]].text_lines,
                             heap[cleaned[i]].text_lines)]_vars

-----------------------------------------------------------------------------
(* C3 *)

\* C3 (as claimed): in the list perform_deep_cleaning returns, no entry's
\* first non-empty line equals the last non-empty line of the entry before.
C3_NoRepeatLeft ==
    (call = 1 /\ pc = "cleaned") =>
        \A k \in 2..Len(cleaned) :
            ~Repeats(heap[cleaned[k - 1]].text_lines,
                     heap[cleaned[k]].text_lines)

-----------------------------------------------------------------------------
(* C4 *)

\* steps perform_deep_cleaning has left at most: two for each pass the cap
\* still allows (the pass, and its test) and one for the return
StepsLeft == IF pc = "clean" THEN 2 * (5 - passes) + 1
             ELSE IF pc = "filter" THEN 1 ELSE 0

\* C4: perform_deep_cleaning runs remove_duplicates at least once and at
\* most 5 times; a pass after the first is run only when the pass before it
\* dropped an entry and fewer than 5 passes have run; every call returns:
\* whenever the loop is to go round again a pass is left for it, and every
\* step of a call lowers StepsLeft, which is never negative.  (Stated on
\* steps; the initial state has run no pass and is about to run the first.)
C4_PassesBounded ==
    [][/\ PassStep => /\ passes < 5
                      /\ (passes >= 1 => Len(cleaned) < prev_count)
       /\ passes' <= 5
       /\ Returned' => passes' >= 1
       /\ (pc' = "clean") => passes' < 5
       /\ (pc \in {"clean", "filter"}) =>
             (StepsLeft' < StepsLeft /\ 0 <= StepsLeft')]_vars

\* the fifth pass still dropped an entry and the cap ended the loop
C4_Witness ==
    pc = "filter" /\ passes = 5 /\ Len(cleaned) < prev_count

-----------------------------------------------------------------------------
(* C5 *)

\* C5: every entry of the list perform_deep_cleaning returns has a line with
\* a non-whitespace character.
C5_NoEmptyEntry ==
    Returned => \A k \in 1..Len(cleaned) : HasText(heap[cleaned[k]].text_lines)

\* the input's first entry had no lines, another only a whitespace line
C5_Witness ==
    /\ pc = "cleaned" /\ call = 1
    /\ Len(given) = 3
    /\ given[1].text_lines = <<>>
    /\ \E k \in 2..3 : given[k].text_lines = <<" ">>
    /\ Len(cleaned) = 1

-----------------------------------------------------------------------------
(* C6 *)

\* line of `formatted` on which entry k's number stands
RECURSIVE NumberLineOf(_)
NumberLineOf(k) ==
    IF k = 1 THEN 1
    ELSE NumberLineOf(k - 1) + 3 + Len(heap[cleaned[k - 1]].text_lines)

\* C6: the returned list of length N carries the numbers 1..N in list order,
\* whatever the numbers were, and format_srt emits them in that order.
C6_Renumbered ==
    /\ Returned => \A k \in 1..Len(cleaned) : heap[cleaned[k]].number = k
    /\ pc = "formatted" =>
          \A k \in 1..Len(cleaned) :
              /\ NumberLineOf(k) <= Len(formatted)
              /\ formatted[NumberLineOf(k)] = ToString(k)

\* numbers were duplicated and out of order, an entry was dropped
C6_Witness ==
    /\ pc = "formatted" /\ call = 1
    /\ Len(given) = 3 /\ Len(cleaned) = 2
    /\ given[1].number = 7 /\ given[2].number = 3 /\ given[3].number = 7
    /\ given[cleaned[2]].number = 7

-----------------------------------------------------------------------------
(* C8 *)

-----------------------------------------------------------------------------
(* C9 *)

\* C9: the returned list is an order-preserving subsequence of the list
\* passed; a returned entry has its start and end time unchanged and its
\* text lines are a suffix of those it was passed with; the first entry
\* passed is never trimmed.
C9_SubsequenceOfInput ==
    /\ Returned =>
         /\ Len(cleaned) <= Len(entries)
         /\ \A k \in 1..Len(cleaned) :
              /\ InList(entries, cleaned[k])
              /\ k > 1 => PosIn(entries, cleaned[k - 1]) < PosIn(entries, cleaned[k])
              /\ LET was == given[PosIn(entries, cleaned[k])]
                     is == heap[cleaned[k]]
                 IN  /\ is.start_time = was.start_time
                     /\ is.end_time = was.end_time
                     /\ IsSuffix(is.text_lines, was.text_lines)
    /\ entries # <<>> => heap[entries[1]].text_lines = given[1].text_lines

\* an entry was dropped and a returned entry was trimmed
C9_Witness ==
    /\ pc = "cleaned" /\ call = 1
    /\ Len(cleaned) = 2 /\ Len(entries) = 3
    /\ \E k \in 1..Len(cleaned) :
         Len(heap[cleaned[k]].text_lines) < Len(given[cleaned[k]].text_lines)

-----------------------------------------------------------------------------
(* C7 *)

\* the text's blocks hold text lines with a non-whitespace character only,
\* and no parsed entry starts with the line the entry before it ends with
C7_Distinct ==
    /\ \A k \in 1..Len(content) : content[k] # " "
    /\ \A k \in 2..Len(given) :
          ~Repeats(given[k - 1].text_lines, given[k].text_lines)

\* C7: for a text of well-formed blocks without such repeats, parse_srt,
\* perform_deep_cleaning, format_srt and parse_srt again yield the entries
\* of the first parse: as many, with the same timestamps and text lines in
\* the same order, numbered 1..N, hence unchanged when they were so numbered.
C7_RoundTrip ==
    (pc = "reparsed" /\ C7_Distinct) =>
        /\ Len(reparsed) = Len(given)
        /\ \A k \in 1..Len(reparsed) :
              /\ reparsed[k].start_time = given[k].start_time
              /\ reparsed[k].end_time = given[k].end_time
              /\ reparsed[k].text_lines = given[k].text_lines
              /\ reparsed[k].number = k
        /\ (\A k \in 1..Len(given) : given[k].number = k) => reparsed = given

\* three blocks numbered 7, 3, 7, one of them with two text lines
C7_Witness ==
    /\ pc = "reparsed" /\ C7_Distinct
    /\ Len(given) = 3
    /\ given[1].number = 7
    /\ \E k \in 1..3 : Len(given[k].text_lines) = 2
    /\ reparsed[1].number = 1

-----------------------------------------------------------------------------
(* C10 *)

Said(message) == \E k \in 1..Len(printed) : printed[k][1] = message
FailedWith(message) ==
    \E k \in 1..Len(printed) :
        printed[k] = <<"Error processing file", message>>

\* C10: the output file is opened only once the input has been read and
\* parse_srt, perform_deep_cleaning and format_srt have completed; a run
\* that fails with a wrong argument count, an input read error or a
\* processing exception leaves the output file untouched and exits with
\* status 1; the success lines are printed only once the file is written.
C10_OutputAfterProcessing ==
    /\ outfile # "untouched" =>
          /\ argc = 3 /\ readable
          /\ pc \in {"opened", "written", "exit"}
          /\ passes >= 1
          /\ formatted = format_srt(Values(heap, cleaned))
    /\ (argc # 3 \/ ~readable \/ FailedWith("int() failed")) =>
          outfile = "untouched"
    /\ (Said("Usage") \/ FailedWith("cannot read input")
            \/ FailedWith("int() failed")) =>
          (pc = "exit" /\ status = 1 /\ outfile = "untouched")
    /\ (pc = "exit" /\ (argc # 3 \/ ~readable)) => status = 1
    /\ (Said("Successfully cleaned subtitles")
            \/ Said("Original entries, Cleaned entries")) =>
          outfile = "written"
    /\ status = 0 => outfile = "written"

\* a run ended by the exception int() raised in parse_srt
C10_Witness ==
    /\ pc = "exit"
    /\ FailedWith("int() failed")
    /\ status = 1
    /\ outfile = "untouched"
    /\ Len(content) > 2

====
